---- MODULE Spec2Model ----
(***************************************************************************)
(* Model of the backend of the AI-powered code debugger:                   *)
(*   src/src/backend/code_analyzer.py  (CodeAnalyzer)                      *)
(*   src/src/backend/ai_service.py     (AIService.get_suggestions)         *)
(*   src/src/backend/api.py            (the /analyze handler)              *)
(*                                                                         *)
(* Source text is a sequence of physical lines.  A line is an indentation  *)
(* (a number of spaces) and one of a few fixed statement texts:            *)
(*   "for"     for i in x:                "while"   while c:               *)
(*   "if"      if c:                      "def"     def f():               *)
(*   "append"  r.append(i)                "forA"    for i in x: r.append(i)*)
(*   "tryA"    try: r.append(i)           "exceptA" except E: r.append(i)  *)
(*   "deep"    y = a+a+...+a, with more operands than the interpreter's    *)
(*             recursion limit (1000 unless changed; 1500 operands say)    *)
(* The text of the program is the lines joined by "\n".                    *)
(***************************************************************************)
EXTENDS Integers, Sequences, FiniteSets, TLC

\* --------------------------------------------------------------------------
\* Bounds of the model
\* --------------------------------------------------------------------------
\* longest source text given to the CodeAnalyzer methods, in lines
MaxLines == 3
\* longest source text posted to /analyze, in lines
MaxApiLines == 2
\* most messages pylint reports on one text
MaxLintMessages == 2
\* most scans made one after another on one CodeAnalyzer
MaxScans == 3

\* --------------------------------------------------------------------------
\* Source text
\* --------------------------------------------------------------------------
Headers == {"for", "while", "if", "def"}
Simple  == {"append", "forA", "deep"}
Kinds   == Headers \cup Simple \cup {"tryA", "exceptA"}

Line(i, k) == [indent |-> i, kind |-> k]

\* The indentations tried for a line that follows a line indented by prev:
\* at most one space deeper than the line before it.
NextIndents(prev) == 0..(prev + 1)

RECURSIVE SourcesOfLen(_)
SourcesOfLen(n) ==
    IF n = 0 THEN {<<>>}
    ELSE IF n = 1 THEN {<<Line(0, k)>> : k \in Kinds}
    ELSE UNION {{Append(s, Line(i, k)) : i \in NextIndents(s[n - 1].indent), k \in Kinds}
                : s \in SourcesOfLen(n - 1)}

Sources(maxLen) == UNION {SourcesOfLen(n) : n \in 0..maxLen}

\* --------------------------------------------------------------------------
\* ast.parse: the syntax tree of a source text, or a SyntaxError
\* --------------------------------------------------------------------------
\* A node of the tree: the class name, the line (0 for the classes that carry
\* none), the attr/id field, and the child nodes in ast.iter_child_nodes order.
\* ast.parse gives no node a "parent" attribute.
Node(kind, lineno, attr, children) ==
    [kind |-> kind, lineno |-> lineno, attr |-> attr, children |-> children]

Ctx(c) == Node(c, 0, "", <<>>)
NameNode(id, c, ln) == Node("Name", ln, id, <<Ctx(c)>>)

\* r.append(i) as an expression: Call(func=Attribute(value=Name, attr), args=[Name])
AppendCall(ln) ==
    Node("Call", ln, "",
         <<Node("Attribute", ln, "append", <<NameNode("r", "Load", ln), Ctx("Load")>>),
           NameNode("i", "Load", ln)>>)
\* the expression statement r.append(i)
AppendStmt(ln) == Node("Expr", ln, "", <<AppendCall(ln)>>)

\* y = a+a+...+a: Assign(targets=[Name], value=BinOp(left=BinOp(...), ...)).
\* The left-nested chain of BinOp nodes, one per operator, is kept as its top
\* node (attr "chain") over one node that stands for all the operands below
\* it: the chain is deeper than the interpreter stack allows.
DeepAssign(ln) ==
    Node("Assign", ln, "",
         <<NameNode("y", "Store", ln),
           Node("BinOp", ln, "chain", <<Node("BinOp", ln, "operands", <<>>)>>)>>)

\* the node of a one-line statement
SimpleNode(kind, ln) ==
    CASE kind = "append" -> AppendStmt(ln)
      [] kind = "forA"   -> Node("For", ln, "",
                                 <<NameNode("i", "Store", ln), NameNode("x", "Load", ln),
                                   AppendStmt(ln)>>)
      [] kind = "deep"   -> DeepAssign(ln)

\* the node of a compound statement with the given body
CompoundNode(kind, ln, body) ==
    CASE kind = "for"   -> Node("For", ln, "",
                                <<NameNode("i", "Store", ln), NameNode("x", "Load", ln)>> \o body)
      [] kind = "while" -> Node("While", ln, "", <<NameNode("c", "Load", ln)>> \o body)
      [] kind = "if"    -> Node("If", ln, "", <<NameNode("c", "Load", ln)>> \o body)
      [] kind = "def"   -> Node("FunctionDef", ln, "f", <<Node("arguments", 0, "", <<>>)>> \o body)

\* except E: r.append(i)
HandlerNode(ln) ==
    Node("ExceptHandler", ln, "", <<NameNode("E", "Load", ln), AppendStmt(ln)>>)

\* try: r.append(i) on line ln followed by h handlers on the next h lines
TryNode(ln, h) ==
    Node("Try", ln, "", <<AppendStmt(ln)>> \o [j \in 1..h |-> HandlerNode(ln + j)])

NoError == [msg |-> "", lineno |-> 0]
SyntaxError(msg, ln) == [msg |-> msg, lineno |-> ln]

BlockMsg(kind) ==
    IF kind = "def" THEN "expected an indented block after function definition"
    ELSE "expected an indented block after compound statement"

\* the number of consecutive except lines at indentation b from line pos on
RECURSIVE HandlersAt(_, _, _)
HandlersAt(lines, pos, b) ==
    IF pos <= Len(lines) /\ lines[pos].kind = "exceptA" /\ lines[pos].indent = b
    THEN 1 + HandlersAt(lines, pos + 1, b)
    ELSE 0

Min(a, b) == IF a <= b THEN a ELSE b

\* the tokenizer's stack of indentation levels with the levels above i removed
RECURSIVE PopTo(_, _)
PopTo(stack, i) ==
    IF Len(stack) > 1 /\ stack[Len(stack)] > i
    THEN PopTo(SubSeq(stack, 1, Len(stack) - 1), i)
    ELSE stack

\* the tokenizer's stack of indentation levels after the first n lines
RECURSIVE IndentStack(_, _)
IndentStack(lines, n) ==
    IF n = 0 THEN <<0>>
    ELSE LET below == IndentStack(lines, n - 1)
             i == lines[n].indent
         IN IF i > below[Len(below)] THEN Append(below, i) ELSE PopTo(below, i)

\* line pos is indented less than the line before it, to a level that is not
\* on the stack: the tokenizer raises where the parser asks for this line
BadDedent(lines, pos) ==
    /\ pos <= Len(lines)
    /\ LET stack == IndentStack(lines, pos - 1) IN
       /\ lines[pos].indent < stack[Len(stack)]
       /\ \A j \in 1..Len(stack) : stack[j] # lines[pos].indent

UnindentError(pos) == SyntaxError("unindent does not match any outer indentation level", pos)

\* The statements of the block indented by b that starts at line pos, up to
\* the first line indented less (or the end of the text).
RECURSIVE ParseBlock(_, _, _, _)
ParseBlock(lines, pos, b, acc) ==
    IF pos > Len(lines) \/ lines[pos].indent < b
    THEN [err |-> NoError, stmts |-> acc, pos |-> pos]
    ELSE IF lines[pos].indent > b
    THEN [err |-> SyntaxError("unexpected indent", pos), stmts |-> acc, pos |-> pos]
    ELSE LET k == lines[pos].kind IN
      CASE k \in Simple -> ParseBlock(lines, pos + 1, b, Append(acc, SimpleNode(k, pos)))
        [] k \in Headers ->
             IF BadDedent(lines, pos + 1)
             THEN [err |-> UnindentError(pos + 1), stmts |-> acc, pos |-> pos + 1]
             ELSE IF pos = Len(lines) \/ lines[pos + 1].indent <= b
             THEN [err |-> SyntaxError(BlockMsg(k), Min(pos + 1, Len(lines))),
                   stmts |-> acc, pos |-> pos]
             ELSE LET body == ParseBlock(lines, pos + 1, lines[pos + 1].indent, <<>>) IN
                  IF body.err # NoError THEN body
                  ELSE IF body.pos <= Len(lines) /\ lines[body.pos].indent > b
                  THEN [err |-> UnindentError(body.pos), stmts |-> acc, pos |-> body.pos]
                  ELSE ParseBlock(lines, body.pos, b,
                                  Append(acc, CompoundNode(k, pos, body.stmts)))
        [] k = "tryA" ->
             LET h == HandlersAt(lines, pos + 1, b) IN
             IF h = 0 /\ BadDedent(lines, pos + 1)
             THEN [err |-> UnindentError(pos + 1), stmts |-> acc, pos |-> pos + 1]
             ELSE IF h = 0
             THEN [err |-> SyntaxError("expected 'except' or 'finally' block",
                                       Min(pos + 1, Len(lines))),
                   stmts |-> acc, pos |-> pos]
             ELSE ParseBlock(lines, pos + 1 + h, b, Append(acc, TryNode(pos, h)))
        [] k = "exceptA" ->
             [err |-> SyntaxError("invalid syntax", pos), stmts |-> acc, pos |-> pos]

\* ast.parse(code)
Parse(code) ==
    LET r == ParseBlock(code, 1, 0, <<>>) IN
    IF r.err # NoError
    THEN [ok |-> FALSE, error |-> r.err, tree |-> Node("Module", 0, "", <<>>)]
    ELSE [ok |-> TRUE, error |-> NoError, tree |-> Node("Module", 0, "", r.stmts)]

\* --------------------------------------------------------------------------
\* Texts and findings
\* --------------------------------------------------------------------------
\* A text is a fixed string followed by the description of an error, str(e)
\* (NoError when the text embeds none).
Str(t) == [text |-> t, error |-> NoError]
FStr(t, e) == [text |-> t, error |-> e]

\* the RecursionError raised when the interpreter stack is exhausted
RecursionError == [msg |-> "maximum recursion depth exceeded", lineno |-> 0]

LoopKinds == {"For", "While"}

NestedLoopFinding(node) ==
    [type |-> "NestedLoop",
     line |-> node.lineno,
     message |-> Str("Nested loop detected"),
     suggestion |-> Str("Consider using alternative approaches like list comprehension or vectorized operations.")]

AppendFinding(node) ==
    [type |-> "IneffientListOperation",
     line |-> node.lineno,
     message |-> Str("List append in loop"),
     suggestion |-> Str("Consider using list comprehension or pre-allocating the list.")]

\* (variant: the finding is reported at the line of the error)
AnalysisErrorFinding_atErrorLine(e) ==
    [type |-> "AnalysisError",
     message |-> FStr("Failed to analyze performance: ", e),
     line |-> e.lineno,
     suggestion |-> Str("Ensure the code is syntactically correct.")]

\* (variant: the description of the error is put in the suggestion)
AnalysisErrorFinding_inSuggestion(e) ==
    [type |-> "AnalysisError",
     message |-> Str("Failed to analyze performance"),
     line |-> 0,
     suggestion |-> FStr("", e)]

\* the finding appended by the except clause of analyze_performance
AnalysisErrorFinding(e) ==
    [type |-> "AnalysisError",
     message |-> FStr("Failed to analyze performance: ", e),
     line |-> 0,
     suggestion |-> Str("Ensure the code is syntactically correct.")]

\* --------------------------------------------------------------------------
\* CodeAnalyzer._is_in_loop and CodeAnalyzer._analyze_node
\* --------------------------------------------------------------------------
\* (variant: every call is taken to be in a loop)
is_in_loop_always(node) == TRUE

\* hasattr(parent, 'parent') is whether the node has a parent attribute
RECURSIVE is_in_loop(_)
is_in_loop(node) ==
    IF "parent" \in DOMAIN node
    THEN IF node.parent.kind \in LoopKinds THEN TRUE ELSE is_in_loop(node.parent)
    ELSE FALSE

\* the test of lines 117-121 on a node
IsAppendCall(node) ==
    /\ node.kind = "Call"
    /\ node.children[1].kind = "Attribute"
    /\ node.children[1].attr = "append"
    /\ node.children[1].children[1].kind = "Name"

\* lines 107-114: the findings after the nested-loop check of node
LoopCheck(node, issues, depth) ==
    IF node.kind \in LoopKinds /\ depth > 0
    THEN Append(issues, NestedLoopFinding(node))
    ELSE issues

\* lines 117-127: the findings after the list-operation check of node
AppendCheck(node, issues) ==
    IF IsAppendCall(node) /\ is_in_loop(node)
    THEN Append(issues, AppendFinding(node))
    ELSE issues

\* lines 131-134: the depth a child is analyzed with
ChildDepth(child, depth) ==
    IF child.kind \in LoopKinds THEN depth + 1 ELSE depth

\* (variant: the children are taken last to first)
IterChildNodes_reversed(node) ==
    [j \in 1..Len(node.children) |-> node.children[Len(node.children) + 1 - j]]

\* ast.iter_child_nodes(node)
IterChildNodes(node) == node.children

\* The recursion of _analyze_node into the operands of an operator chain
\* longer than the recursion limit exhausts the interpreter stack.
ExceedsStack(node) == node.kind = "BinOp" /\ node.attr = "chain"

\* The state of a walk: the findings collected, the nodes entered so far (in
\* order), and whether a RecursionError is propagating.
WalkStart == [issues |-> <<>>, visited |-> <<>>, raised |-> FALSE]

\* what the walk records of a node it enters
Visit(node) == [kind |-> node.kind, lineno |-> node.lineno]

\* _analyze_node(node, issues, depth)
RECURSIVE analyze_node(_, _, _)
RECURSIVE AnalyzeChildren(_, _, _, _)
analyze_node(node, st, depth) ==
    LET entered == [st EXCEPT !.visited = Append(@, Visit(node))]
        looped  == [entered EXCEPT !.issues = LoopCheck(node, @, depth)]
        checked == [looped EXCEPT !.issues = AppendCheck(node, @)]
    IN IF ExceedsStack(node)
       THEN [checked EXCEPT !.raised = TRUE]
       ELSE AnalyzeChildren(IterChildNodes(node), 1, checked, depth)

\* the for loop of lines 130-134 from the k-th child on; an exception raised
\* in a child leaves the loop
AnalyzeChildren(children, k, st, depth) ==
    IF st.raised \/ k > Len(children)
    THEN st
    ELSE AnalyzeChildren(children, k + 1,
                         analyze_node(children[k], st, ChildDepth(children[k], depth)),
                         depth)

\* --------------------------------------------------------------------------
\* CodeAnalyzer.analyze_performance
\* --------------------------------------------------------------------------
\* (variant: the findings collected before the fault are dropped)
ExceptClause_discarding(issues, e) == <<AnalysisErrorFinding(e)>>

\* lines 96-102: the except clause, entered with the list as it is then
ExceptClause(issues, e) == Append(issues, AnalysisErrorFinding(e))

\* (variant: only the SyntaxError of ast.parse is caught)
analyze_performance_syntaxOnly(code) ==
    LET p == Parse(code) IN
    IF ~p.ok
    THEN [issues |-> ExceptClause(<<>>, p.error), visited |-> <<>>,
          caught |-> "parse", propagated |-> FALSE]
    ELSE LET w == analyze_node(p.tree, WalkStart, 0) IN
         [issues |-> w.issues, visited |-> w.visited,
          caught |-> "none", propagated |-> w.raised]

\* The call analyze_performance(code): the list returned (issues), the nodes
\* the walk entered (visited), what the except clause caught ("none",
\* "parse" or "walk") and whether an exception left the method (propagated).
analyze_performance(code) ==
    LET p == Parse(code) IN
    IF ~p.ok
    THEN [issues |-> ExceptClause(<<>>, p.error), visited |-> <<>>,
          caught |-> "parse", propagated |-> FALSE]
    ELSE LET w == analyze_node(p.tree, WalkStart, 0) IN
         IF w.raised
         THEN [issues |-> ExceptClause(w.issues, RecursionError), visited |-> w.visited,
               caught |-> "walk", propagated |-> FALSE]
         ELSE [issues |-> w.issues, visited |-> w.visited,
               caught |-> "none", propagated |-> FALSE]

\* --------------------------------------------------------------------------
\* CodeAnalyzer.get_code_complexity
\* --------------------------------------------------------------------------
\* ast.walk(tree): the nodes of the tree, breadth first
RECURSIVE WalkQueue(_, _)
WalkQueue(todo, out) ==
    IF todo = <<>> THEN out
    ELSE WalkQueue(Tail(todo) \o IterChildNodes(Head(todo)), Append(out, Head(todo)))

AstWalk(tree) == WalkQueue(<<tree>>, <<>>)

\* len(code.splitlines()) of the lines joined by "\n"; no line is empty
SplitLinesLen(code) == Len(code)

\* (variant: exception handlers are not counted)
DecisionKinds_noHandlers == {"If", "While", "For"}

\* line 154
DecisionKinds == {"If", "While", "For", "ExceptHandler"}

\* lines 154-157: the counters after one node
CountNode(node, c) ==
    IF node.kind \in DecisionKinds
    THEN [c EXCEPT !.cyclomatic = @ + 1]
    ELSE IF node.kind = "FunctionDef"
    THEN [c EXCEPT !.number_of_functions = @ + 1]
    ELSE c

RECURSIVE CountNodes(_, _, _)
CountNodes(nodes, k, c) ==
    IF k > Len(nodes) THEN c ELSE CountNodes(nodes, k + 1, CountNode(nodes[k], c))

\* get_code_complexity(code); ast.parse is not guarded: a SyntaxError propagates
get_code_complexity(code) ==
    LET p == Parse(code) IN
    IF ~p.ok
    THEN [raised |-> TRUE, error |-> p.error,
          value |-> [cyclomatic |-> 0, number_of_functions |-> 0, lines_of_code |-> 0]]
    ELSE [raised |-> FALSE, error |-> NoError,
          value |-> CountNodes(AstWalk(p.tree), 1,
                               [cyclomatic |-> 0, number_of_functions |-> 0,
                                lines_of_code |-> SplitLinesLen(code)])]

\* --------------------------------------------------------------------------
\* CodeAnalyzer.find_errors
\* --------------------------------------------------------------------------
\* A category and a severity are written as the sequence of their characters.
\* str.lower() on one character: the ASCII capitals go to their small
\* letters, every other ASCII character is left as it is
LowerOf ==
    [A |-> "a", B |-> "b", C |-> "c", D |-> "d", E |-> "e", F |-> "f", G |-> "g",
     H |-> "h", I |-> "i", J |-> "j", K |-> "k", L |-> "l", M |-> "m", N |-> "n",
     O |-> "o", P |-> "p", Q |-> "q", R |-> "r", S |-> "s", T |-> "t", U |-> "u",
     V |-> "v", W |-> "w", X |-> "x", Y |-> "y", Z |-> "z"]

LowerChar(c) == IF c \in DOMAIN LowerOf THEN LowerOf[c] ELSE c

\* str.lower(): character by character
lower(s) == [i \in 1..Len(s) |-> LowerChar(s[i])]

\* the texts "convention" and "error"
ConventionText == <<"c", "o", "n", "v", "e", "n", "t", "i", "o", "n">>
ErrorText == <<"e", "r", "r", "o", "r">>

\* What the pylint run does is not decided by this repository: it reports
\* some messages, or raises.
LintMessage(j) ==
    IF j = 1
    THEN [symbol |-> "missing-module-docstring", line |-> 1,
          msg |-> "Missing module docstring", category |-> ConventionText]
    ELSE [symbol |-> "undefined-variable", line |-> j - 1,
          msg |-> "Undefined variable", category |-> ErrorText]

LintOutcomes ==
    {[raised |-> TRUE, messages |-> <<>>]}
    \cup {[raised |-> FALSE, messages |-> [j \in 1..n |-> LintMessage(j)]]
          : n \in 0..MaxLintMessages}

LintError == [msg |-> "pylint failed", lineno |-> 0]

\* lines 42-47: the entry returned for a SyntaxError
SyntaxErrorEntry(e) ==
    [type |-> "SyntaxError", line |-> e.lineno, message |-> FStr("", e), severity |-> ErrorText]

\* lines 65-70: the entry of a pylint message
LintEntry(m) ==
    [type |-> m.symbol, line |-> m.line, message |-> Str(m.msg), severity |-> lower(m.category)]

\* lines 74-79
LintFailureEntry(e) ==
    [type |-> "AnalysisError", line |-> 0,
     message |-> FStr("Failed to analyze code: ", e), severity |-> ErrorText]

\* find_errors(code) when the pylint run ends as lint says
find_errors(code, lint) ==
    LET p == Parse(code) IN
    IF ~p.ok THEN <<SyntaxErrorEntry(p.error)>>
    ELSE IF lint.raised THEN <<LintFailureEntry(LintError)>>
    ELSE [j \in 1..Len(lint.messages) |-> LintEntry(lint.messages[j])]

\* --------------------------------------------------------------------------
\* AIService.get_suggestions
\* --------------------------------------------------------------------------
LLMError == [msg |-> "request failed", lineno |-> 0]

\* lines 91-95 and 98-102: the suggestion appended for one error
SuggestionFor(error, answered) ==
    [error_type |-> error.type,
     line |-> error.line,
     suggestion |-> IF answered THEN Str("completion")
                    ELSE FStr("Failed to get AI suggestion: ", LLMError)]

\* how the try block of lines 79-95 can go for one error: it raises before
\* the coroutine is suspended (the call of create raises, or what it returns
\* cannot be awaited, as with the synchronous client of line 27), or the
\* coroutine is suspended on the request
Requests == {"raised", "suspended"}

\* (variant: the first request that raises ends the loop)
RECURSIVE SuggestFrom_abortOnFailure(_, _, _, _)
SuggestFrom_abortOnFailure(errs, k, llm, out) ==
    IF k > Len(errs) THEN [suggestions |-> out, awaiting |-> 0]
    ELSE IF llm[k] = "raised" THEN [suggestions |-> out, awaiting |-> 0]
    ELSE [suggestions |-> out, awaiting |-> k]

\* the loop of lines 73-102 from the k-th error on, as far as the coroutine
\* runs without being suspended: llm[j] is how the request for the j-th error
\* goes; awaiting is the error whose request the coroutine is suspended on,
\* 0 when the loop has ended
RECURSIVE SuggestFrom(_, _, _, _)
SuggestFrom(errs, k, llm, out) ==
    IF k > Len(errs) THEN [suggestions |-> out, awaiting |-> 0]
    ELSE IF llm[k] = "raised"
    THEN SuggestFrom(errs, k + 1, llm, Append(out, SuggestionFor(errs[k], FALSE)))
    ELSE [suggestions |-> out, awaiting |-> k]

\* the call, up to the first suspension or the return
get_suggestions(code, errs, llm) == SuggestFrom(errs, 1, llm, <<>>)

\* --------------------------------------------------------------------------
\* State
\* --------------------------------------------------------------------------
VARIABLES
    code,              \* the source text of the call or request
    pc,                \* where the caller of the CodeAnalyzer, or the handler, is
    calls,             \* the methods invoked so far, in order
    errors,            \* api.py line 49
    suggestions,       \* api.py line 50
    performance_tips,  \* the list analyze_performance returned
    visited,           \* the nodes its walk entered, in order
    caught,            \* what its except clause caught: "none", "parse", "walk"
    complexity,        \* the value get_code_complexity returned
    awaiting,          \* the error whose request get_suggestions is suspended on, 0 if none
    pending,           \* the nodes _analyze_node is still to be called on, with their depth
    patterns,          \* self.common_performance_patterns of the CodeAnalyzer
    log                \* the scans made on the CodeAnalyzer: text and list returned

vars == <<code, pc, calls, errors, suggestions, performance_tips, visited, caught, complexity,
          awaiting, pending, patterns, log>>

\* CodeAnalyzer.__init__: the only attribute of the instance
CommonPerformancePatterns ==
    [nested_loops |-> <<"For", "Nested loops detected. Consider optimizing or using alternative approaches.">>,
     multiple_ifs |-> <<"If", "Multiple nested if statements. Consider consolidating conditions.">>,
     list_comprehension |-> <<"For", "Consider using list comprehension for better performance.">>]

NoComplexity == [cyclomatic |-> 0, number_of_functions |-> 0, lines_of_code |-> 0]

Fresh ==
    /\ calls = <<>>
    /\ errors = <<>>
    /\ suggestions = <<>>
    /\ performance_tips = <<>>
    /\ visited = <<>>
    /\ caught = "none"
    /\ complexity = NoComplexity
    /\ awaiting = 0
    /\ pending = <<>>
    /\ patterns = CommonPerformancePatterns
    /\ log = <<>>

\* --------------------------------------------------------------------------
\* The CodeAnalyzer called directly
\* --------------------------------------------------------------------------
Init ==
    /\ code \in Sources(MaxLines)
    /\ pc = "idle"
    /\ Fresh

\* the assignments of a call of analyze_performance(code) that ends at pc `to`
Scan(to) ==
    LET r == analyze_performance(code) IN
    /\ performance_tips' = r.issues
    /\ visited' = r.visited
    /\ caught' = r.caught
    /\ pc' = IF r.propagated THEN "scan_raised" ELSE to
    /\ calls' = Append(calls, "analyze_performance")

AnalyzePerformance ==
    /\ pc = "idle"
    /\ Scan("scanned")
    /\ UNCHANGED <<code, errors, suggestions, complexity, awaiting, pending, patterns, log>>

GetCodeComplexity ==
    /\ pc = "idle"
    /\ LET r == get_code_complexity(code) IN
       /\ complexity' = r.value
       /\ pc' = IF r.raised THEN "complexity_raised" ELSE "measured"
    /\ calls' = Append(calls, "get_code_complexity")
    /\ UNCHANGED <<code, errors, suggestions, performance_tips, visited, caught, awaiting, pending, patterns, log>>

Next == AnalyzePerformance \/ GetCodeComplexity

Spec == Init /\ [][Next]_vars

\* --------------------------------------------------------------------------
\* Scans made one after another on the same CodeAnalyzer
\* --------------------------------------------------------------------------
\* the texts scanned: the empty text, a loop, an append outside a loop, a loop
\* in a loop, a loop over a statement that faults, a text that does not parse
RepeatTexts ==
    {<<>>,
     <<Line(0, "forA")>>,
     <<Line(0, "append")>>,
     <<Line(0, "while"), Line(1, "forA")>>,
     <<Line(0, "for"), Line(1, "deep")>>,
     <<Line(0, "for")>>}

InitRepeat ==
    /\ code = <<>>
    /\ pc = "idle"
    /\ Fresh

\* the children of node as the calls of lines 130-134 still to be made
Calls(node, depth) ==
    [j \in 1..Len(IterChildNodes(node)) |->
        [node |-> IterChildNodes(node)[j],
         depth |-> ChildDepth(IterChildNodes(node)[j], depth)]]

\* (variant: the list of findings is kept from one call to the next)
BeginScan_sharedList ==
    /\ pc \in {"idle", "scanned"}
    /\ Len(log) < MaxScans
    /\ \E c \in RepeatTexts :
          LET p == Parse(c) IN
          /\ code' = c
          /\ visited' = <<>>
          /\ IF ~p.ok
             THEN /\ performance_tips' = ExceptClause(performance_tips, p.error)
                  /\ caught' = "parse"
                  /\ pending' = <<>>
                  /\ pc' = "returning"
             ELSE /\ performance_tips' = performance_tips
                  /\ caught' = "none"
                  /\ pending' = <<[node |-> p.tree, depth |-> 0]>>
                  /\ pc' = "walking"
    /\ calls' = Append(calls, "analyze_performance")
    /\ UNCHANGED <<errors, suggestions, complexity, awaiting, patterns, log>>

\* lines 92-95: analyze_performance(c) is called on a CodeAnalyzer that has
\* made the scans of log; the list starts empty and the text is parsed; a
\* text that does not parse goes to the except clause
BeginScan ==
    /\ pc \in {"idle", "scanned"}
    /\ Len(log) < MaxScans
    /\ \E c \in RepeatTexts :
          LET p == Parse(c) IN
          /\ code' = c
          /\ visited' = <<>>
          /\ IF ~p.ok
             THEN /\ performance_tips' = ExceptClause(<<>>, p.error)
                  /\ caught' = "parse"
                  /\ pending' = <<>>
                  /\ pc' = "returning"
             ELSE /\ performance_tips' = <<>>
                  /\ caught' = "none"
                  /\ pending' = <<[node |-> p.tree, depth |-> 0]>>
                  /\ pc' = "walking"
    /\ calls' = Append(calls, "analyze_performance")
    /\ UNCHANGED <<errors, suggestions, complexity, awaiting, patterns, log>>

\* lines 105-134: one call of _analyze_node, on the first pending node; its
\* checks append to the list, and its children are the next calls; a node
\* that exhausts the stack ends the walk in the except clause
EnterNode ==
    /\ pc = "walking"
    /\ pending # <<>>
    /\ LET node == pending[1].node
           depth == pending[1].depth
           checked == AppendCheck(node, LoopCheck(node, performance_tips, depth))
           todo == Calls(node, depth) \o Tail(pending)
       IN /\ visited' = Append(visited, Visit(node))
          /\ IF ExceedsStack(node)
             THEN /\ performance_tips' = ExceptClause(checked, RecursionError)
                  /\ caught' = "walk"
                  /\ pending' = <<>>
                  /\ pc' = "returning"
             ELSE /\ performance_tips' = checked
                  /\ caught' = caught
                  /\ pending' = todo
                  /\ pc' = IF todo = <<>> THEN "returning" ELSE "walking"
    /\ UNCHANGED <<code, calls, errors, suggestions, complexity, awaiting, patterns, log>>

\* line 103: the list is returned
Return ==
    /\ pc = "returning"
    /\ log' = Append(log, [code |-> code, issues |-> performance_tips])
    /\ pc' = "scanned"
    /\ UNCHANGED <<code, calls, errors, suggestions, performance_tips, visited, caught,
                   complexity, awaiting, pending, patterns>>

NextRepeat == BeginScan \/ EnterNode \/ Return

SpecRepeat == InitRepeat /\ [][NextRepeat]_vars

\* --------------------------------------------------------------------------
\* The /analyze handler (api.py analyze_code)
\* --------------------------------------------------------------------------
InitApi ==
    /\ code \in Sources(MaxApiLines)
    /\ pc = "request"
    /\ Fresh

\* line 49
FindErrors ==
    /\ pc = "request"
    /\ \E lint \in LintOutcomes : errors' = find_errors(code, lint)
    /\ pc' = "checked"
    /\ calls' = Append(calls, "find_errors")
    /\ UNCHANGED <<code, suggestions, performance_tips, visited, caught, complexity, awaiting, pending, patterns, log>>

\* line 50
GetSuggestions ==
    /\ pc = "checked"
    /\ \E llm \in [1..Len(errors) -> Requests] :
          LET r == get_suggestions(code, errors, llm) IN
          /\ suggestions' = r.suggestions
          /\ awaiting' = r.awaiting
          /\ pc' = IF r.awaiting = 0 THEN "suggested" ELSE "awaiting"
    /\ calls' = Append(calls, "get_suggestions")
    /\ UNCHANGED <<code, errors, performance_tips, visited, caught, complexity, pending, patterns, log>>

\* the request get_suggestions is suspended on ends, answered (lines 90-95)
\* or not (96-102), and the loop goes on to the next suspension or the return
Resume ==
    /\ pc = "awaiting"
    /\ \E answered \in BOOLEAN, llm \in [1..Len(errors) -> Requests] :
          LET out == Append(suggestions, SuggestionFor(errors[awaiting], answered))
              r == SuggestFrom(errors, awaiting + 1, llm, out)
          IN /\ suggestions' = r.suggestions
             /\ awaiting' = r.awaiting
             /\ pc' = IF r.awaiting = 0 THEN "suggested" ELSE "awaiting"
    /\ UNCHANGED <<code, calls, errors, performance_tips, visited, caught, complexity, pending, patterns, log>>

\* (variant: the scanner is skipped when the syntax check failed)
ScanRequest_shortCircuit ==
    /\ pc = "suggested"
    /\ IF Parse(code).ok
       THEN Scan("tipped")
       ELSE /\ pc' = "tipped"
            /\ UNCHANGED <<calls, performance_tips, visited, caught>>
    /\ UNCHANGED <<code, errors, suggestions, complexity, awaiting, pending, patterns, log>>

\* line 51: the handler calls the scanner on the text of the request
ScanRequest ==
    /\ pc = "suggested"
    /\ Scan("tipped")
    /\ UNCHANGED <<code, errors, suggestions, complexity, awaiting, pending, patterns, log>>

\* lines 52-59: the text is formatted and the response returned
Respond ==
    /\ pc = "tipped"
    /\ pc' = "responded"
    /\ UNCHANGED <<code, calls, errors, suggestions, performance_tips, visited, caught, complexity, awaiting, pending, patterns, log>>

\* lines 60-61: formatting (or building the response) raised: HTTP 500
Fail ==
    /\ pc = "tipped"
    /\ pc' = "http500"
    /\ UNCHANGED <<code, calls, errors, suggestions, performance_tips, visited, caught, complexity, awaiting, pending, patterns, log>>

NextApi == FindErrors \/ GetSuggestions \/ Resume \/ ScanRequest \/ Respond \/ Fail

SpecApi == InitApi /\ [][NextApi]_vars

\* --------------------------------------------------------------------------
\* Properties
\* --------------------------------------------------------------------------
\* The lines of a text, read off the text itself (not off the tree).
LoopLines(src)    == {L \in 1..Len(src) : src[L].kind \in {"for", "while", "forA"}}
DeepLines(src)    == {L \in 1..Len(src) : src[L].kind = "deep"}
LinesOfKind(src, ks) == {L \in 1..Len(src) : src[L].kind \in ks}

\* line L is in the block of the loop header on line H
InLoopBlock(src, H, L) ==
    /\ H < L
    /\ src[H].kind \in {"for", "while"}
    /\ \A m \in (H + 1)..L : src[m].indent > src[H].indent

EnclosingLoops(src, L) == {H \in 1..Len(src) : InLoopBlock(src, H, L)}

\* the lines with a call r.append(i) in the body of a loop
AppendInLoopLines(src) ==
    {L \in 1..Len(src) :
        \/ src[L].kind = "forA"
        \/ src[L].kind \in {"append", "tryA", "exceptA"} /\ EnclosingLoops(src, L) # {}}

FindingsAt(tips, type, L) ==
    {j \in 1..Len(tips) : tips[j].type = type /\ tips[j].line = L}

Last(seq) == seq[Len(seq)]

FindingFields == {"type", "line", "message", "suggestion"}

\* the scanner, called directly, has returned
Scanned == pc = "scanned"

\* C1: a completed scan reports a NestedLoop finding for a loop exactly when
\* the loop has a strictly enclosing loop, one finding per such loop, at the
\* loop's own line (none for a lone loop, one for a doubly and two for a
\* triply nested loop).
C1_NestedLoopIffEnclosed ==
    (Scanned /\ caught = "none") =>
        \A L \in LoopLines(code) :
            Cardinality(FindingsAt(performance_tips, "NestedLoop", L))
                = IF EnclosingLoops(code, L) # {} THEN 1 ELSE 0

\* C2: a completed scan reports, for every call r.append(i) in the body of a
\* loop, an IneffientListOperation finding at the line of the call with the
\* message "List append in loop".
C2_AppendInLoopReported ==
    (Scanned /\ caught = "none") =>
        \A L \in AppendInLoopLines(code) :
            \E j \in FindingsAt(performance_tips, "IneffientListOperation", L) :
                performance_tips[j].message = Str("List append in loop")

\* C3 as stated: every text that parses and has no loop is scanned to the
\* empty list.
C3_NoLoopEmpty_AsStated ==
    (Scanned /\ Parse(code).ok /\ LoopLines(code) = {}) => performance_tips = <<>>

\* C3: a text that parses and has no loop is scanned to the empty list when the
\* walk raises no fault (the empty text and an append outside any loop
\* included), and to the single AnalysisError finding when it does.
C3_NoLoopEmptyUnlessFault ==
    (Scanned /\ Parse(code).ok /\ LoopLines(code) = {}) =>
        /\ caught = (IF DeepLines(code) = {} THEN "none" ELSE "walk")
        /\ performance_tips = IF DeepLines(code) = {} THEN <<>>
                              ELSE <<AnalysisErrorFinding(RecursionError)>>

C3_Witness ==
    /\ Scanned /\ Parse(code).ok /\ LoopLines(code) = {} /\ DeepLines(code) = {}
    /\ LinesOfKind(code, {"append"}) # {}
    /\ performance_tips = <<>>

\* C4: for a text that fails to parse the scan returns exactly one finding, of
\* type AnalysisError at line 0, and its walk enters no node.
C4_ParseFailure ==
    (Scanned /\ ~Parse(code).ok) =>
        /\ Len(performance_tips) = 1
        /\ performance_tips[1].type = "AnalysisError"
        /\ performance_tips[1].line = 0
        /\ visited = <<>>
        /\ caught = "parse"

C4_Witness ==
    /\ Scanned /\ ~Parse(code).ok
    /\ Parse(code).error.lineno > 1
    /\ Len(performance_tips) = 1

\* C5 as stated: after a fault in the walk the list returned is the single
\* AnalysisError finding, with no finding of the walk in it.
C5_FaultDiscards_AsStated ==
    (Scanned /\ caught = "walk") =>
        /\ Len(performance_tips) = 1
        /\ performance_tips[1].type = "AnalysisError"
        /\ performance_tips[1].line = 0

\* the text with every deep statement replaced by r.append(i)
Shallow(src) ==
    [L \in 1..Len(src) |-> IF src[L].kind = "deep" THEN Line(src[L].indent, "append") ELSE src[L]]

FirstDeep(src) == CHOOSE L \in DeepLines(src) : \A M \in DeepLines(src) : L <= M

\* C5: after a fault in the walk the findings collected before it are kept:
\* the list returned is the findings of the lines before the faulting
\* statement (those the scan of the text without the fault reports there), in
\* order, followed by one AnalysisError finding at line 0.
C5_FaultKeepsFindings ==
    (Scanned /\ caught = "walk") =>
        LET n == Len(performance_tips)
            Before(f) == f.line < FirstDeep(code)
        IN /\ n >= 1
           /\ performance_tips[n].type = "AnalysisError"
           /\ performance_tips[n].line = 0
           /\ SubSeq(performance_tips, 1, n - 1)
                = SelectSeq(analyze_performance(Shallow(code)).issues, Before)
           /\ \A j \in 1..(n - 1) : performance_tips[j].type # "AnalysisError"

C5_Witness ==
    /\ Scanned /\ caught = "walk"
    /\ Len(performance_tips) >= 2
    /\ performance_tips[1].type = "NestedLoop"

\* the error the except clause of the scan caught
CaughtError == IF caught = "parse" THEN Parse(code).error ELSE RecursionError

\* C6 as stated: the suggestion of an AnalysisError finding carries the
\* description of the error.
C6_SuggestionCarriesError_AsStated ==
    (Scanned /\ caught # "none") => Last(performance_tips).suggestion.error = CaughtError

\* C6: in every AnalysisError finding of a scan the message is "Failed to
\* analyze performance: " followed by the description of the error (the
\* parser's, or the fault's), and the suggestion is the fixed text "Ensure the
\* code is syntactically correct.".
C6_MessageCarriesError ==
    Scanned =>
        \A j \in 1..Len(performance_tips) :
            performance_tips[j].type = "AnalysisError" =>
                /\ caught # "none"
                /\ performance_tips[j].message = FStr("Failed to analyze performance: ", CaughtError)
                /\ performance_tips[j].suggestion = Str("Ensure the code is syntactically correct.")

C6_Witness ==
    /\ Scanned /\ caught = "parse"
    /\ Parse(code).error.msg = "unexpected indent"
    /\ Last(performance_tips).message.error = Parse(code).error

\* the handler has called the scanner
AfterScanRequest == pc \in {"tipped", "responded", "http500"}

\* C7 as stated: the scanner is only ever invoked by the handler on a text
\* that passed the syntax check.
C7_ShortCircuit_AsStated ==
    (\E j \in 1..Len(calls) : calls[j] = "analyze_performance") => Parse(code).ok

\* C7: the handler runs find_errors before the scanner and does not stop on a
\* syntax error: find_errors then returns the SyntaxError entry alone, and
\* the scanner is still invoked, on the same text, and returns the single
\* AnalysisError finding of the parse failure.
C7_ScannerInvokedAfterCheck ==
    AfterScanRequest =>
        /\ calls = <<"find_errors", "get_suggestions", "analyze_performance">>
        /\ ~Parse(code).ok =>
              /\ errors = <<SyntaxErrorEntry(Parse(code).error)>>
              /\ performance_tips = <<AnalysisErrorFinding(Parse(code).error)>>

C7_Witness ==
    /\ pc = "responded"
    /\ ~Parse(code).ok
    /\ errors[1].type = "SyntaxError"
    /\ performance_tips[1].type = "AnalysisError"

\* C8: a call of the scanner always returns (no exception leaves it, whether
\* raised by the parser or in the walk), and every finding returned has
\* exactly the fields type, line, message and suggestion.
C8_ScanReturnsFindings ==
    /\ pc # "scan_raised"
    /\ Scanned => \A j \in 1..Len(performance_tips) : DOMAIN performance_tips[j] = FindingFields

C8_Witness ==
    /\ Scanned /\ caught = "walk"
    /\ DOMAIN Last(performance_tips) = FindingFields

\* the nodes of a tree in depth-first pre-order
RECURSIVE PreOrder(_)
RECURSIVE PreOrderAll(_, _)
PreOrder(node) == <<Visit(node)>> \o PreOrderAll(node.children, 1)
PreOrderAll(nodes, k) ==
    IF k > Len(nodes) THEN <<>> ELSE PreOrder(nodes[k]) \o PreOrderAll(nodes, k + 1)

IsPrefix(a, b) == Len(a) <= Len(b) /\ a = SubSeq(b, 1, Len(a))

\* finding f is a finding of a node v
FindingOf(f, v) ==
    /\ f.line = v.lineno
    /\ \/ f.type = "NestedLoop" /\ v.kind \in LoopKinds
       \/ f.type = "IneffientListOperation" /\ v.kind = "Call"

\* the findings fs[i..] are findings of distinct nodes of vs[j..], in the
\* order of vs
RECURSIVE InOrderOf(_, _, _, _)
InOrderOf(fs, i, vs, j) ==
    IF i > Len(fs) THEN TRUE
    ELSE IF j > Len(vs) THEN FALSE
    ELSE IF FindingOf(fs[i], vs[j]) THEN InOrderOf(fs, i + 1, vs, j + 1)
    ELSE InOrderOf(fs, i, vs, j + 1)

\* the findings of nodes in a list returned by the scan
NodeFindings(tips) ==
    IF tips # <<>> /\ Last(tips).type = "AnalysisError" THEN SubSeq(tips, 1, Len(tips) - 1)
    ELSE tips

\* C9 as stated: the walk visits every node of the tree exactly once, in
\* pre-order, and the findings are in the order of their nodes.
C9_EveryNodeOnce_AsStated ==
    (Scanned /\ Parse(code).ok) =>
        /\ visited = PreOrder(Parse(code).tree)
        /\ InOrderOf(NodeFindings(performance_tips), 1, visited, 1)

\* C9: the walk visits the nodes in depth-first pre-order, each at most once:
\* all of them when it completes, and those before the fault when it does
\* not. The findings are in the order their nodes are visited, each the
\* finding of a node of its own (none merged), and every visited loop with an
\* enclosing loop has its finding.
C9_PreOrderFindings ==
    (Scanned /\ Parse(code).ok) =>
        /\ IsPrefix(visited, PreOrder(Parse(code).tree))
        /\ caught = "none" => visited = PreOrder(Parse(code).tree)
        /\ InOrderOf(NodeFindings(performance_tips), 1, visited, 1)
        /\ \A L \in LoopLines(code) :
              (EnclosingLoops(code, L) # {} /\ \E j \in 1..Len(visited) :
                    visited[j].kind \in LoopKinds /\ visited[j].lineno = L)
                 => Cardinality(FindingsAt(performance_tips, "NestedLoop", L)) = 1

C9_Witness ==
    /\ Scanned /\ caught = "none"
    /\ Len(performance_tips) >= 2
    /\ performance_tips[1].line < performance_tips[2].line
    /\ \E L \in LoopLines(code) : EnclosingLoops(code, L) # {}

\* C10: on a text that parses, get_code_complexity returns the number of if,
\* for, while and except nodes as cyclomatic, the number of def nodes as
\* number_of_functions (no node counted in both) and the number of lines of
\* the text as lines_of_code.
C10_ComplexityCounts ==
    /\ pc = "measured" =>
          /\ Parse(code).ok
          /\ complexity.cyclomatic
                = Cardinality(LinesOfKind(code, {"if", "for", "while", "forA", "exceptA"}))
          /\ complexity.number_of_functions = Cardinality(LinesOfKind(code, {"def"}))
          /\ complexity.lines_of_code = Len(code)
          /\ complexity.cyclomatic + complexity.number_of_functions
                <= Len(AstWalk(Parse(code).tree))
    /\ pc = "complexity_raised" => ~Parse(code).ok

C10_Witness ==
    /\ pc = "measured"
    /\ complexity.number_of_functions >= 1
    /\ LinesOfKind(code, {"exceptA"}) # {}
    /\ complexity.cyclomatic >= 1

\* C11: scans on one CodeAnalyzer keep no state between them. Whatever was
\* scanned before on the instance, the list a scan returns is the list a call
\* on that text alone returns, so two scans of the same text return equal
\* lists (same findings, same order); while a scan walks the tree its list
\* holds findings of this text only; the instance stays as __init__ made it.
C11_ScanDeterministic ==
    /\ \A i, j \in 1..Len(log) : log[i].code = log[j].code => log[i].issues = log[j].issues
    /\ \A i \in 1..Len(log) : log[i].issues = analyze_performance(log[i].code).issues
    /\ pc \in {"walking", "returning"} =>
          IsPrefix(performance_tips, analyze_performance(code).issues)
    /\ pc = "returning" => visited = analyze_performance(code).visited
    /\ patterns = CommonPerformancePatterns

C11_Witness ==
    /\ pc = "scanned"
    /\ Len(log) = 3
    /\ log[1].code = log[3].code
    /\ log[2].code # log[1].code
    /\ log[1].issues # <<>>
    /\ log[2].issues # <<>>
    /\ log[3].issues = log[1].issues
    /\ caught = "walk"

\* C12: once get_suggestions has returned, there is one suggestion per error
\* of find_errors, in the order of the errors, the j-th carrying the type (as
\* error_type) and the line of the j-th error; its text is the completion when
\* the request was answered and the placeholder when the request failed.
\* While the call is suspended on a request, the suggestions so far are those
\* of the errors before it.
FailedSuggestion == FStr("Failed to get AI suggestion: ", LLMError)

AfterGetSuggestions == pc \in {"suggested", "tipped", "responded", "http500"}

SuggestionOf(j) ==
    /\ suggestions[j].error_type = errors[j].type
    /\ suggestions[j].line = errors[j].line
    /\ suggestions[j].suggestion \in {Str("completion"), FailedSuggestion}

C12_OneSuggestionPerError ==
    /\ AfterGetSuggestions =>
          /\ awaiting = 0
          /\ Len(suggestions) = Len(errors)
          /\ \A j \in 1..Len(errors) : SuggestionOf(j)
    /\ pc = "awaiting" =>
          /\ awaiting \in 1..Len(errors)
          /\ Len(suggestions) = awaiting - 1
          /\ \A j \in 1..Len(suggestions) : SuggestionOf(j)

C12_Witness ==
    /\ pc = "suggested"
    /\ Len(errors) = 2
    /\ Len(suggestions) = 2
    /\ errors[1].type # errors[2].type
    /\ suggestions[1].suggestion = FailedSuggestion
    /\ suggestions[2].suggestion = Str("completion")
    /\ suggestions[2].error_type = errors[2].type

====
